---- MODULE Spec2Model ----
(***************************************************************************)
(* CLEMONT STORE ONLINE: the REST handlers of main.py over the tables of   *)
(* models.py (categoria, producto, comprador).                             *)
(*                                                                         *)
(* A table is a sequence of rows; the autoincrement primary key of a row   *)
(* is its index (rows are never deleted: every DELETE is a logical one).   *)
(* A handler is an operator from the committed database and the request    *)
(* to the response and the database it leaves committed; the action of a   *)
(* handler applies it.  Money is fixed point, in thousandths of the        *)
(* currency unit (10.00 is 10000).  Free-text columns that no handler      *)
(* reads (descripcion, nombres, apellidos, correo, medio_pago) are left    *)
(* out of the rows.                                                        *)
(***************************************************************************)
EXTENDS Integers, Sequences, FiniteSets, TLC

VARIABLES categorias, productos, compras, resp,
          pc, leido, cantidad, resultado, stock0

vars == <<categorias, productos, compras, resp, pc, leido, cantidad, resultado, stock0>>
dbvars == <<categorias, productos, compras>>
concvars == <<pc, leido, cantidad, resultado, stock0>>

----------------------------------------------------------------------------
(* Bounds of the model *)
MaxCat == 2
MaxProd == 2
MaxCompras == 2
MaxStock == 3

(* Request inputs *)
Ropa == <<"R", "o", "p", "a">>
ropa == <<"r", "o", "p", "a">>
Xs == <<"X", "s">>
NombresCategoria == {Ropa, ropa, Xs}
NombresProducto == {"Camisa", "Jean"}
(* name and price of the products on offer; 10000 is 10.00 *)
OfertasCatalogo == {<<"Camisa", 15>>, <<"Jean", 15>>}

(* Three units at 0.025 put the subtotal (0.075) and the discount (0.015)  *)
(* on a rounding tie; a price of 0 is refused.                             *)
OfertasVentas == {<<"Camisa", 10000>>, <<"Jean", 25>>, <<"Jean", 0>>}
CatIds == 1 .. MaxCat + 1
ProdIds == 1 .. MaxProd + 1

PatchCat(campos, nulos, nombre, is_active) ==
    [campos |-> campos, nulos |-> nulos \cap campos,
     nombre |-> IF "nombre" \in campos THEN nombre ELSE Ropa,
     is_active |-> IF "is_active" \in campos \ nulos THEN is_active ELSE TRUE]

PatchesCategoria ==
    {PatchCat(c, n, nombre, a) :
        c \in SUBSET {"nombre", "is_active"}, n \in {{}, {"is_active"}},
        nombre \in NombresCategoria, a \in BOOLEAN}

PatchProd(campos, nulos, nombre, precio, stock, is_active, categoria_id) ==
    [campos |-> campos, nulos |-> nulos \cap campos,
     nombre |-> IF "nombre" \in campos THEN nombre ELSE "Camisa",
     precio |-> IF "precio" \in campos THEN precio ELSE 15,
     stock |-> IF "stock" \in campos \ nulos THEN stock ELSE 0,
     is_active |-> IF "is_active" \in campos THEN is_active ELSE TRUE,
     categoria_id |-> IF "categoria_id" \in campos THEN categoria_id ELSE 1]

(* PATCH bodies on the catalogue fields of a product *)
PatchesCatalogo ==
    {PatchProd(c, {}, nombre, 15, 0, a, k) :
        c \in SUBSET {"nombre", "is_active", "categoria_id"},
        nombre \in NombresProducto, a \in BOOLEAN, k \in CatIds}

(* PATCH bodies on the sale fields of a product *)
PatchesVentas ==
    {PatchProd(c, n, "Camisa", 15, stock, a, 1) :
        c \in SUBSET {"stock", "is_active"}, n \in {{}, {"stock"}},
        stock \in {-1, MaxStock}, a \in BOOLEAN}

(* PATCH bodies that deactivate or reactivate a product *)
PatchesBajas ==
    {PatchProd(c, {}, "Camisa", 15, 0, a, 1) :
        c \in SUBSET {"is_active"}, a \in BOOLEAN}

Compradores ==
    {[producto_id |-> id, cantidad_unidades |-> q, edad |-> 18] :
        id \in ProdIds, q \in {0, 2, 3, MaxStock + 1}}
    \cup {[producto_id |-> 1, cantidad_unidades |-> 2, edad |-> 17]}

Arribas == [subtotal : BOOLEAN, descuento_aplicado : BOOLEAN]

----------------------------------------------------------------------------
(* Strings *)
LowerChar(c) ==
    CASE c = "R" -> "r"
      [] c = "X" -> "x"
      [] OTHER -> c

Lower(s) == [i \in 1 .. Len(s) |-> LowerChar(s[i])]

----------------------------------------------------------------------------
(* The committed database and a handler's result *)
DB == [categorias |-> categorias, productos |-> productos, compras |-> compras]

SinCuerpo == <<>>

Resultado(st, db, body) ==
    [status |-> st, db |-> db, body |-> body, locales |-> <<>>]

(* session.get(Model, id): the row, or nothing *)
Existe(tabla, id) == id \in 1 .. Len(tabla)

----------------------------------------------------------------------------
(* Field constraints of models.py; a request that breaks one is answered   *)
(* 422 by the framework before the handler runs.                           *)
MinLenNombre == 3
EdadMinima == 18

NombreValido(nombre) == Len(nombre) >= MinLenNombre

CategoriaCreate_valid(c) == NombreValido(c.nombre)

(* A PATCH body: campos is the set of fields the client sent               *)
(* (model_dump(exclude_unset=True)), nulos those sent as null.             *)
Enviado(patch, f) == f \in patch.campos
Valor(patch, f) == f \in patch.campos /\ f \notin patch.nulos

CategoriaUpdate_valid(patch) ==
    Valor(patch, "nombre") => NombreValido(patch.nombre)

StockValido(stock) == stock >= 0

ProductoCreate_valid(p) == p.precio > 0 /\ StockValido(p.stock)

ProductoUpdate_valid(patch) ==
    /\ Valor(patch, "precio") => patch.precio > 0
    /\ Valor(patch, "stock") => StockValido(patch.stock)

StockUpdate_valid(cantidad_a_restar) == cantidad_a_restar > 0

CompradorCreate_valid(c) == c.edad >= EdadMinima /\ c.cantidad_unidades >= 1

----------------------------------------------------------------------------
(* Constraints of the tables, checked by the engine at commit *)

(* categoria.nombre is UNIQUE, compared byte for byte *)
NombreCategoriaRepetido(cats, nombre, salvo) ==
    \E i \in 1 .. Len(cats) : i # salvo /\ cats[i].nombre = nombre

(* producto.nombre is UNIQUE *)
NombreProductoRepetido(prods, nombre, salvo) ==
    \E i \in 1 .. Len(prods) : i # salvo /\ prods[i].nombre = nombre

----------------------------------------------------------------------------
(* 2.1 POST /categorias/ *)
create_categoria(db, categoria, commit_ok) ==
    IF ~CategoriaCreate_valid(categoria)
    THEN Resultado(422, db, SinCuerpo)
    ELSE IF NombreCategoriaRepetido(db.categorias, categoria.nombre, 0)
    THEN Resultado(409, db, SinCuerpo)
    ELSE IF ~commit_ok
    THEN Resultado(500, db, SinCuerpo)
    ELSE Resultado(201,
                   [db EXCEPT !.categorias = Append(@, categoria)],
                   SinCuerpo)

(* update_categoria without the lookup of the new name *)
update_categoria_sin_busqueda(db, categoria_id, patch, commit_ok) ==
    IF ~CategoriaUpdate_valid(patch)
    THEN Resultado(422, db, SinCuerpo)
    ELSE IF ~Existe(db.categorias, categoria_id)
    THEN Resultado(404, db, SinCuerpo)
    ELSE IF patch.nulos # {} \/ ~commit_ok
    THEN Resultado(500, db, SinCuerpo)
    ELSE LET viejo == db.categorias[categoria_id]
             nuevo == [nombre |-> IF Enviado(patch, "nombre")
                                  THEN patch.nombre ELSE viejo.nombre,
                       is_active |-> IF Enviado(patch, "is_active")
                                     THEN patch.is_active ELSE viejo.is_active]
         IN Resultado(200,
                      [db EXCEPT !.categorias[categoria_id] = nuevo],
                      SinCuerpo)

(* 2.4 PATCH /categorias/{id} *)
update_categoria(db, categoria_id, patch, commit_ok) ==
    IF ~CategoriaUpdate_valid(patch)
    THEN Resultado(422, db, SinCuerpo)
    ELSE IF ~Existe(db.categorias, categoria_id)
    THEN Resultado(404, db, SinCuerpo)
    ELSE IF /\ Valor(patch, "nombre")
            /\ patch.nombre # db.categorias[categoria_id].nombre
            /\ NombreCategoriaRepetido(db.categorias, patch.nombre, 0)
    THEN Resultado(409, db, SinCuerpo)
    ELSE IF patch.nulos # {} \/ ~commit_ok
    THEN Resultado(500, db, SinCuerpo)
    ELSE LET viejo == db.categorias[categoria_id]
             nuevo == [nombre |-> IF Enviado(patch, "nombre")
                                  THEN patch.nombre ELSE viejo.nombre,
                       is_active |-> IF Enviado(patch, "is_active")
                                     THEN patch.is_active ELSE viejo.is_active]
         IN Resultado(200,
                      [db EXCEPT !.categorias[categoria_id] = nuevo],
                      SinCuerpo)

(* A cascade that forgets the WHERE on categoria_id *)
Cascada_sin_filtro(prods, categoria_id) ==
    [i \in 1 .. Len(prods) |->
        IF prods[i].is_active
        THEN [prods[i] EXCEPT !.is_active = FALSE]
        ELSE prods[i]]

(* The cascade of delete_categoria: its active products go inactive *)
Cascada(prods, categoria_id) ==
    [i \in 1 .. Len(prods) |->
        IF prods[i].categoria_id = categoria_id /\ prods[i].is_active
        THEN [prods[i] EXCEPT !.is_active = FALSE]
        ELSE prods[i]]

(* delete_categoria without the early return on an inactive category *)
delete_categoria_sin_atajo(db, categoria_id, commit_ok) ==
    IF ~Existe(db.categorias, categoria_id)
    THEN Resultado(404, db, SinCuerpo)
    ELSE IF ~commit_ok
    THEN Resultado(500, db, SinCuerpo)
    ELSE Resultado(204,
                   [db EXCEPT !.categorias[categoria_id].is_active = FALSE,
                              !.productos = Cascada(@, categoria_id)],
                   SinCuerpo)

(* 2.5 DELETE /categorias/{id} *)
delete_categoria(db, categoria_id, commit_ok) ==
    IF ~Existe(db.categorias, categoria_id)
    THEN Resultado(404, db, SinCuerpo)
    ELSE IF ~db.categorias[categoria_id].is_active
    THEN Resultado(204, db, SinCuerpo)
    ELSE IF ~commit_ok
    THEN Resultado(500, db, SinCuerpo)
    ELSE Resultado(204,
                   [db EXCEPT !.categorias[categoria_id].is_active = FALSE,
                              !.productos = Cascada(@, categoria_id)],
                   SinCuerpo)

----------------------------------------------------------------------------
(* 3.1 POST /productos/ *)
CategoriaDisponible(cats, categoria_id) ==
    Existe(cats, categoria_id) /\ cats[categoria_id].is_active

create_producto(db, producto, commit_ok) ==
    IF ~ProductoCreate_valid(producto)
    THEN Resultado(422, db, SinCuerpo)
    ELSE IF ~CategoriaDisponible(db.categorias, producto.categoria_id)
    THEN Resultado(400, db, SinCuerpo)
    ELSE IF NombreProductoRepetido(db.productos, producto.nombre, 0) \/ ~commit_ok
    THEN Resultado(500, db, SinCuerpo)
    ELSE Resultado(201,
                   [db EXCEPT !.productos = Append(@, producto)],
                   SinCuerpo)

(* 3.4 PATCH /productos/{id} *)
Aplicar(viejo, patch) ==
    [nombre |-> IF Enviado(patch, "nombre") THEN patch.nombre ELSE viejo.nombre,
     precio |-> IF Enviado(patch, "precio") THEN patch.precio ELSE viejo.precio,
     stock |-> IF Enviado(patch, "stock") THEN patch.stock ELSE viejo.stock,
     is_active |-> IF Enviado(patch, "is_active")
                   THEN patch.is_active ELSE viejo.is_active,
     categoria_id |-> IF Enviado(patch, "categoria_id")
                      THEN patch.categoria_id ELSE viejo.categoria_id]

(* update_producto asking only that the new category exists *)
update_producto_categoria_inactiva(db, producto_id, patch, commit_ok) ==
    IF ~ProductoUpdate_valid(patch)
    THEN Resultado(422, db, SinCuerpo)
    ELSE IF ~Existe(db.productos, producto_id)
    THEN Resultado(404, db, SinCuerpo)
    ELSE IF /\ Valor(patch, "categoria_id")
            /\ patch.categoria_id # db.productos[producto_id].categoria_id
            /\ ~Existe(db.categorias, patch.categoria_id)
    THEN Resultado(400, db, SinCuerpo)
    ELSE LET nuevo == Aplicar(db.productos[producto_id], patch)
         IN IF \/ patch.nulos # {}
               \/ NombreProductoRepetido(db.productos, nuevo.nombre, producto_id)
               \/ ~commit_ok
            THEN Resultado(500, db, SinCuerpo)
            ELSE Resultado(200,
                           [db EXCEPT !.productos[producto_id] = nuevo],
                           SinCuerpo)

update_producto(db, producto_id, patch, commit_ok) ==
    IF ~ProductoUpdate_valid(patch)
    THEN Resultado(422, db, SinCuerpo)
    ELSE IF ~Existe(db.productos, producto_id)
    THEN Resultado(404, db, SinCuerpo)
    ELSE IF /\ Valor(patch, "categoria_id")
            /\ patch.categoria_id # db.productos[producto_id].categoria_id
            /\ ~CategoriaDisponible(db.categorias, patch.categoria_id)
    THEN Resultado(400, db, SinCuerpo)
    ELSE LET nuevo == Aplicar(db.productos[producto_id], patch)
         IN IF \/ patch.nulos # {}
               \/ NombreProductoRepetido(db.productos, nuevo.nombre, producto_id)
               \/ ~commit_ok
            THEN Resultado(500, db, SinCuerpo)
            ELSE Resultado(200,
                           [db EXCEPT !.productos[producto_id] = nuevo],
                           SinCuerpo)

(* 3.5 DELETE /productos/{id} *)
delete_producto(db, producto_id, commit_ok) ==
    IF ~Existe(db.productos, producto_id)
    THEN Resultado(404, db, SinCuerpo)
    ELSE IF ~db.productos[producto_id].is_active
    THEN Resultado(204, db, SinCuerpo)
    ELSE IF ~commit_ok
    THEN Resultado(500, db, SinCuerpo)
    ELSE Resultado(204,
                   [db EXCEPT !.productos[producto_id].is_active = FALSE],
                   SinCuerpo)

(* The business rule of restar_stock and registrar_compra *)
StockInsuficiente_por_uno(stock, cantidad_pedida) == stock + 1 < cantidad_pedida

StockInsuficiente(stock, cantidad_pedida) == stock < cantidad_pedida

(* 3.6 PATCH /productos/{id}/restar_stock *)
restar_stock(db, producto_id, cantidad_a_restar, commit_ok) ==
    IF ~StockUpdate_valid(cantidad_a_restar)
    THEN Resultado(422, db, SinCuerpo)
    ELSE IF ~Existe(db.productos, producto_id)
    THEN Resultado(404, db, SinCuerpo)
    ELSE IF StockInsuficiente(db.productos[producto_id].stock, cantidad_a_restar)
    THEN Resultado(400, db, SinCuerpo)
    ELSE IF ~commit_ok
    THEN Resultado(500, db, SinCuerpo)
    ELSE Resultado(200,
                   [db EXCEPT !.productos[producto_id].stock = @ - cantidad_a_restar],
                   SinCuerpo)

----------------------------------------------------------------------------
(* 4.1 POST /compras/ *)
UnidadesDescuento == 3
PorcentajeDescuento == 20

DescuentoPorcentaje(cantidad_a_comprar) ==
    IF cantidad_a_comprar >= UnidadesDescuento THEN PorcentajeDescuento ELSE 0

(* A discount on the units beyond the second only *)
CalculoCompra_marginal(precio_unidad, cantidad_a_comprar) ==
    LET subtotal == precio_unidad * cantidad_a_comprar
        descuento_aplicado ==
            IF cantidad_a_comprar >= UnidadesDescuento
            THEN (precio_unidad * (cantidad_a_comprar - 2) * PorcentajeDescuento) \div 100
            ELSE 0
    IN [precio_unidad |-> precio_unidad,
        cantidad_a_comprar |-> cantidad_a_comprar,
        subtotal |-> subtotal,
        descuento_aplicado |-> descuento_aplicado,
        total_pagar |-> subtotal - descuento_aplicado]

(* The locals of registrar_compra.  The prices of the model are multiples  *)
(* of 0.005, so the division by 100 is exact.                              *)
CalculoCompra(precio_unidad, cantidad_a_comprar) ==
    LET subtotal == precio_unidad * cantidad_a_comprar
        descuento_aplicado ==
            (subtotal * DescuentoPorcentaje(cantidad_a_comprar)) \div 100
    IN [precio_unidad |-> precio_unidad,
        cantidad_a_comprar |-> cantidad_a_comprar,
        subtotal |-> subtotal,
        descuento_aplicado |-> descuento_aplicado,
        total_pagar |-> subtotal - descuento_aplicado]

(* round(x, 2) on thousandths.  A decimal tie (x.xx5) has no exact binary  *)
(* float, so the float nearest to it may lie on either side: arriba says   *)
(* on which.  total_pagar ties only when it is the float of subtotal (no   *)
(* discount), and then rounds as subtotal does.                            *)
Round2(x, arriba) ==
    LET r == x % 10
    IN IF r < 5 THEN x - r
       ELSE IF r > 5 THEN x - r + 10
       ELSE IF arriba THEN x + 5 ELSE x - 5

CompraResultado(calc, arriba) ==
    [cantidad_comprada |-> calc.cantidad_a_comprar,
     precio_unidad |-> calc.precio_unidad,
     subtotal |-> Round2(calc.subtotal, arriba.subtotal),
     descuento_aplicado |-> Round2(calc.descuento_aplicado, arriba.descuento_aplicado),
     total_pagar |-> Round2(calc.total_pagar, arriba.subtotal)]

(* What the commit of a purchase writes: the stock and the new row *)
CompraPersistida_una_unidad(db, comprador_data) ==
    [db EXCEPT !.productos[comprador_data.producto_id].stock = @ - 1,
               !.compras = Append(@, comprador_data)]

CompraPersistida(db, comprador_data) ==
    [db EXCEPT !.productos[comprador_data.producto_id].stock =
                   @ - comprador_data.cantidad_unidades,
               !.compras = Append(@, comprador_data)]

(* registrar_compra taking what stock there is before it checks the stock *)
registrar_compra_parcial(db, comprador_data, commit_ok, arriba) ==
    IF ~CompradorCreate_valid(comprador_data)
    THEN Resultado(422, db, SinCuerpo)
    ELSE IF \/ ~Existe(db.productos, comprador_data.producto_id)
            \/ ~db.productos[comprador_data.producto_id].is_active
    THEN Resultado(404, db, SinCuerpo)
    ELSE IF StockInsuficiente(db.productos[comprador_data.producto_id].stock,
                              comprador_data.cantidad_unidades)
    THEN Resultado(400,
                   [db EXCEPT !.productos[comprador_data.producto_id].stock = 0],
                   SinCuerpo)
    ELSE LET db_producto == db.productos[comprador_data.producto_id]
             cantidad_a_comprar == comprador_data.cantidad_unidades
             calc == CalculoCompra(db_producto.precio, cantidad_a_comprar)
         IN IF ~commit_ok
            THEN Resultado(500, db, SinCuerpo)
            ELSE [status |-> 201,
                  db |-> CompraPersistida(db, comprador_data),
                  body |-> <<CompraResultado(calc, arriba)>>,
                  locales |-> <<calc>>]

(* registrar_compra checking the stock before it checks is_active *)
registrar_compra_stock_primero(db, comprador_data, commit_ok, arriba) ==
    IF ~CompradorCreate_valid(comprador_data)
    THEN Resultado(422, db, SinCuerpo)
    ELSE IF ~Existe(db.productos, comprador_data.producto_id)
    THEN Resultado(404, db, SinCuerpo)
    ELSE IF StockInsuficiente(db.productos[comprador_data.producto_id].stock,
                              comprador_data.cantidad_unidades)
    THEN Resultado(400, db, SinCuerpo)
    ELSE IF ~db.productos[comprador_data.producto_id].is_active
    THEN Resultado(404, db, SinCuerpo)
    ELSE LET db_producto == db.productos[comprador_data.producto_id]
             cantidad_a_comprar == comprador_data.cantidad_unidades
             calc == CalculoCompra(db_producto.precio, cantidad_a_comprar)
         IN IF ~commit_ok
            THEN Resultado(500, db, SinCuerpo)
            ELSE [status |-> 201,
                  db |-> CompraPersistida(db, comprador_data),
                  body |-> <<CompraResultado(calc, arriba)>>,
                  locales |-> <<calc>>]

(* registrar_compra without the rollback: a failed commit leaves the stock *)
(* written and the purchase row not                                        *)
registrar_compra_sin_rollback(db, comprador_data, commit_ok, arriba) ==
    IF ~CompradorCreate_valid(comprador_data)
    THEN Resultado(422, db, SinCuerpo)
    ELSE IF \/ ~Existe(db.productos, comprador_data.producto_id)
            \/ ~db.productos[comprador_data.producto_id].is_active
    THEN Resultado(404, db, SinCuerpo)
    ELSE IF StockInsuficiente(db.productos[comprador_data.producto_id].stock,
                              comprador_data.cantidad_unidades)
    THEN Resultado(400, db, SinCuerpo)
    ELSE LET db_producto == db.productos[comprador_data.producto_id]
             cantidad_a_comprar == comprador_data.cantidad_unidades
             calc == CalculoCompra(db_producto.precio, cantidad_a_comprar)
         IN IF ~commit_ok
            THEN Resultado(500,
                           [db EXCEPT !.productos[comprador_data.producto_id].stock =
                                          @ - cantidad_a_comprar],
                           SinCuerpo)
            ELSE [status |-> 201,
                  db |-> CompraPersistida(db, comprador_data),
                  body |-> <<CompraResultado(calc, arriba)>>,
                  locales |-> <<calc>>]

registrar_compra(db, comprador_data, commit_ok, arriba) ==
    IF ~CompradorCreate_valid(comprador_data)
    THEN Resultado(422, db, SinCuerpo)
    ELSE IF \/ ~Existe(db.productos, comprador_data.producto_id)
            \/ ~db.productos[comprador_data.producto_id].is_active
    THEN Resultado(404, db, SinCuerpo)
    ELSE IF StockInsuficiente(db.productos[comprador_data.producto_id].stock,
                              comprador_data.cantidad_unidades)
    THEN Resultado(400, db, SinCuerpo)
    ELSE LET db_producto == db.productos[comprador_data.producto_id]
             cantidad_a_comprar == comprador_data.cantidad_unidades
             calc == CalculoCompra(db_producto.precio, cantidad_a_comprar)
         IN IF ~commit_ok
            THEN Resultado(500, db, SinCuerpo)
            ELSE [status |-> 201,
                  db |-> CompraPersistida(db, comprador_data),
                  body |-> <<CompraResultado(calc, arriba)>>,
                  locales |-> <<calc>>]

----------------------------------------------------------------------------
(* The service handling one request at a time over a working store *)
NumProcs == 2
Procs == 1 .. NumProcs

SinRespuesta ==
    [op |-> "inicio", id |-> 0, status |-> 0, body |-> <<>>, locales |-> <<>>]

ConcurrenciaParada ==
    /\ pc = [p \in Procs |-> "fin"]
    /\ leido = [p \in Procs |-> 0]
    /\ cantidad = [p \in Procs |-> 0]
    /\ resultado = [p \in Procs |-> 0]
    /\ stock0 = 0

(* A handler's commit fits the bounds of the model *)
Cabe(r) ==
    /\ Len(r.db.categorias) <= MaxCat
    /\ Len(r.db.productos) <= MaxProd
    /\ Len(r.db.compras) <= MaxCompras

(* The response that goes out.  A 422 is the framework's answer and names  *)
(* the bad field, not the row.                                             *)
Respuesta(op, id, r) ==
    [op |-> op, id |-> IF r.status = 422 THEN 0 ELSE id,
     status |-> r.status, body |-> r.body, locales |-> r.locales]

PostCategoria ==
    \E nombre \in NombresCategoria, is_active \in BOOLEAN :
        LET r == create_categoria(DB, [nombre |-> nombre, is_active |-> is_active], TRUE)
        IN /\ Cabe(r)
           /\ categorias' = r.db.categorias
           /\ productos' = r.db.productos
           /\ compras' = r.db.compras
           /\ resp' = Respuesta("create_categoria", 0, r)
           /\ UNCHANGED concvars

PatchCategoria ==
    \E id \in CatIds, patch \in PatchesCategoria :
        LET r == update_categoria(DB, id, patch, TRUE)
        IN /\ Cabe(r)
           /\ categorias' = r.db.categorias
           /\ productos' = r.db.productos
           /\ compras' = r.db.compras
           /\ resp' = Respuesta("update_categoria", id, r)
           /\ UNCHANGED concvars

DeleteCategoria ==
    \E id \in CatIds :
        LET r == delete_categoria(DB, id, TRUE)
        IN /\ Cabe(r)
           /\ categorias' = r.db.categorias
           /\ productos' = r.db.productos
           /\ compras' = r.db.compras
           /\ resp' = Respuesta("delete_categoria", id, r)
           /\ UNCHANGED concvars

PostProducto(ofertas, stocks, cats) ==
    \E oferta \in ofertas, stock \in stocks,
       is_active \in BOOLEAN, categoria_id \in cats :
        LET r == create_producto(DB, [nombre |-> oferta[1], precio |-> oferta[2],
                                      stock |-> stock, is_active |-> is_active,
                                      categoria_id |-> categoria_id], TRUE)
        IN /\ Cabe(r)
           /\ categorias' = r.db.categorias
           /\ productos' = r.db.productos
           /\ compras' = r.db.compras
           /\ resp' = Respuesta("create_producto", categoria_id, r)
           /\ UNCHANGED concvars

PatchProducto(patches) ==
    \E id \in ProdIds, patch \in patches :
        LET r == update_producto(DB, id, patch, TRUE)
        IN /\ Cabe(r)
           /\ categorias' = r.db.categorias
           /\ productos' = r.db.productos
           /\ compras' = r.db.compras
           /\ resp' = Respuesta("update_producto", id, r)
           /\ UNCHANGED concvars

DeleteProducto ==
    \E id \in ProdIds :
        LET r == delete_producto(DB, id, TRUE)
        IN /\ Cabe(r)
           /\ categorias' = r.db.categorias
           /\ productos' = r.db.productos
           /\ compras' = r.db.compras
           /\ resp' = Respuesta("delete_producto", id, r)
           /\ UNCHANGED concvars

RestarStock ==
    \E id \in ProdIds, cantidad_a_restar \in 0 .. MaxStock + 1 :
        LET r == restar_stock(DB, id, cantidad_a_restar, TRUE)
        IN /\ Cabe(r)
           /\ categorias' = r.db.categorias
           /\ productos' = r.db.productos
           /\ compras' = r.db.compras
           /\ resp' = Respuesta("restar_stock", id, r)
           /\ UNCHANGED concvars

PostCompra ==
    \E comprador_data \in Compradores, arriba \in Arribas :
        LET r == registrar_compra(DB, comprador_data, TRUE, arriba)
        IN /\ Cabe(r)
           /\ categorias' = r.db.categorias
           /\ productos' = r.db.productos
           /\ compras' = r.db.compras
           /\ resp' = Respuesta("registrar_compra", comprador_data.producto_id, r)
           /\ UNCHANGED concvars

(* The catalogue: categories and products from an empty database *)
Init ==
    /\ categorias = <<>>
    /\ productos = <<>>
    /\ compras = <<>>
    /\ resp = SinRespuesta
    /\ ConcurrenciaParada

Next ==
    \/ PostCategoria
    \/ PatchCategoria
    \/ DeleteCategoria
    \/ PostProducto(OfertasCatalogo, {0}, CatIds)
    \/ PatchProducto(PatchesCatalogo)
    \/ DeleteProducto

Spec == Init /\ [][Next]_vars

(* The sales: stock and purchases of the products of one category *)
InitVentas ==
    /\ categorias = <<[nombre |-> Ropa, is_active |-> TRUE]>>
    /\ productos = <<>>
    /\ compras = <<>>
    /\ resp = SinRespuesta
    /\ ConcurrenciaParada

NextVentas ==
    \/ PostProducto(OfertasVentas, {-1, 0, MaxStock}, {1, 2})
    \/ PatchProducto(PatchesVentas)
    \/ DeleteProducto
    \/ RestarStock
    \/ PostCompra

SpecVentas == InitVentas /\ [][NextVentas]_vars

(* POST /compras/ over a store whose commit may fail (commit_ok = FALSE:   *)
(* session.commit() raises)                                                *)
PostCompraAlmacen ==
    \E comprador_data \in Compradores, arriba \in Arribas, commit_ok \in BOOLEAN :
        LET r == registrar_compra(DB, comprador_data, commit_ok, arriba)
        IN /\ Cabe(r)
           /\ categorias' = r.db.categorias
           /\ productos' = r.db.productos
           /\ compras' = r.db.compras
           /\ resp' = Respuesta("registrar_compra", comprador_data.producto_id, r)
           /\ UNCHANGED concvars

(* The deactivations: purchases next to the logical deletes of products    *)
(* and of their category, and the reactivation of products                 *)
NextBajas ==
    \/ PostProducto(OfertasVentas, {0, MaxStock}, {1, 2})
    \/ PatchProducto(PatchesBajas)
    \/ DeleteProducto
    \/ DeleteCategoria
    \/ PostCompraAlmacen

SpecBajas == InitVentas /\ [][NextBajas]_vars

----------------------------------------------------------------------------
(* Concurrent restar_stock requests on product 1.  Each request runs in    *)
(* its own thread with its own session (get_session): it loads the row,    *)
(* checks and subtracts on its copy, and its commit writes the stock it    *)
(* computed (UPDATE producto SET stock = <value>).                         *)
InitConcurrente ==
    /\ categorias = <<[nombre |-> Ropa, is_active |-> TRUE]>>
    /\ \E s \in 0 .. MaxStock :
          /\ productos = <<[nombre |-> "Camisa", precio |-> 10000, stock |-> s,
                            is_active |-> TRUE, categoria_id |-> 1]>>
          /\ stock0 = s
    /\ compras = <<>>
    /\ resp = SinRespuesta
    /\ pc = [p \in Procs |-> "get"]
    /\ leido = [p \in Procs |-> 0]
    /\ cantidad \in [Procs -> 1 .. MaxStock]
    /\ resultado = [p \in Procs |-> 0]

(* db_producto = session.get(Producto, producto_id) *)
Get(p) ==
    /\ pc[p] = "get"
    /\ leido' = [leido EXCEPT ![p] = productos[1].stock]
    /\ pc' = [pc EXCEPT ![p] = "check"]
    /\ UNCHANGED <<categorias, productos, compras, resp, cantidad, resultado, stock0>>

(* if db_producto.stock < cantidad_a_restar: raise 400 *)
Check(p) ==
    /\ pc[p] = "check"
    /\ IF StockInsuficiente(leido[p], cantidad[p])
       THEN /\ resultado' = [resultado EXCEPT ![p] = 400]
            /\ pc' = [pc EXCEPT ![p] = "fin"]
       ELSE /\ resultado' = resultado
            /\ pc' = [pc EXCEPT ![p] = "commit"]
    /\ UNCHANGED <<categorias, productos, compras, resp, leido, cantidad, stock0>>

(* db_producto.stock -= cantidad_a_restar; session.commit() *)
Commit(p) ==
    /\ pc[p] = "commit"
    /\ productos' = [productos EXCEPT ![1].stock = leido[p] - cantidad[p]]
    /\ resultado' = [resultado EXCEPT ![p] = 200]
    /\ pc' = [pc EXCEPT ![p] = "fin"]
    /\ UNCHANGED <<categorias, compras, resp, leido, cantidad, stock0>>

NextConcurrente ==
    \E p \in Procs : Get(p) \/ Check(p) \/ Commit(p)

SpecConcurrente == InitConcurrente /\ [][NextConcurrente]_vars

----------------------------------------------------------------------------
(* Properties of the sales and of the deactivations *)

(* The step is the one a handler makes of a request: r is what the handler *)
(* returns for the request on the database of the unprimed state.          *)
PasoDe(op, id, r) ==
    /\ resp' = Respuesta(op, id, r)
    /\ categorias' = r.db.categorias
    /\ productos' = r.db.productos
    /\ compras' = r.db.compras

(* The products of a category *)
DeCategoria(prods, c) == {i \in 1 .. Len(prods) : prods[i].categoria_id = c}

EsCompra(r, st) == r.op = "registrar_compra" /\ r.status = st

(* C1: in every state reached by create_producto, update_producto,         *)
(* restar_stock and registrar_compra requests, in any order and on any     *)
(* products, the stock of every product is >= 0.                           *)
C1_StockNoNegativo ==
    \A i \in 1 .. Len(productos) : productos[i].stock >= 0

(* a decrement has just taken the last units of a product *)
C1_Witness ==
    /\ resp.op \in {"restar_stock", "registrar_compra"}
    /\ resp.status \in {200, 201}
    /\ productos[resp.id].stock = 0

(* C2: a registrar_compra that fails at the product lookup (404: absent or *)
(* inactive) or at the stock check (400: quantity > stock) leaves every    *)
(* product's stock as it was and adds no purchase record.                  *)
C2_CompraFallidaSinCambios ==
    [][(resp'.op = "registrar_compra" /\ resp'.status \in {404, 400})
        => /\ productos' = productos
           /\ compras' = compras
           /\ categorias' = categorias]_vars

(* a purchase of more than the stock of an active product was refused *)
C2_Witness ==
    /\ EsCompra(resp, 400)
    /\ productos[resp.id].is_active
    /\ productos[resp.id].stock > 0

(* C3: a successful registrar_compra of q units of p takes exactly q off   *)
(* p's stock, adds exactly one purchase record (of p, q units) and changes *)
(* no other product and no earlier record; both are in the one commit.     *)
C3_CompraExitosa ==
    [][EsCompra(resp', 201)
        => LET p == resp'.id
               q == resp'.body[1].cantidad_comprada
           IN /\ q >= 1
              /\ Existe(productos, p)
              /\ productos' = [productos EXCEPT ![p].stock = @ - q]
              /\ Len(compras') = Len(compras) + 1
              /\ SubSeq(compras', 1, Len(compras)) = compras
              /\ compras'[Len(compras')].producto_id = p
              /\ compras'[Len(compras')].cantidad_unidades = q
              /\ categorias' = categorias]_vars

(* a second purchase went through with another product in the table *)
C3_Witness ==
    /\ EsCompra(resp, 201)
    /\ Len(compras) = 2
    /\ Len(productos) = 2

(* C4: for a successful purchase of q >= 1 units at unit price u,          *)
(* subtotal = u * q, the discount is 20% of the whole subtotal when        *)
(* q >= 3 and 0 when q < 3, and total = subtotal - discount; the response  *)
(* carries these rounded to 2 decimals (u = 10.00: q = 2 gives             *)
(* 20.00 / 0.00 / 20.00, q = 3 gives 30.00 / 6.00 / 24.00).                *)
Cerca(reportado, exacto) ==
    /\ reportado % 10 = 0
    /\ reportado - exacto <= 5
    /\ exacto - reportado <= 5

C4_Descuento ==
    EsCompra(resp, 201)
    => LET l == resp.locales[1]
           b == resp.body[1]
           u == productos[resp.id].precio
           q == compras[Len(compras)].cantidad_unidades
       IN /\ q >= 1
          /\ b.precio_unidad = u
          /\ b.cantidad_comprada = q
          /\ l.subtotal = u * q
          /\ 100 * l.descuento_aplicado = (IF q >= 3 THEN 20 * u * q ELSE 0)
          /\ l.total_pagar = l.subtotal - l.descuento_aplicado
          /\ Cerca(b.subtotal, l.subtotal)
          /\ Cerca(b.descuento_aplicado, l.descuento_aplicado)
          /\ Cerca(b.total_pagar, l.total_pagar)
          /\ (u = 10000 /\ q = 2)
                => (b.subtotal = 20000 /\ b.descuento_aplicado = 0
                    /\ b.total_pagar = 20000)
          /\ (u = 10000 /\ q = 3)
                => (b.subtotal = 30000 /\ b.descuento_aplicado = 6000
                    /\ b.total_pagar = 24000)

(* three units at 10.00 were bought for 24.00 *)
C4_Witness ==
    /\ EsCompra(resp, 201)
    /\ resp.body[1].precio_unidad = 10000
    /\ resp.body[1].cantidad_comprada = 3
    /\ resp.body[1].total_pagar = 24000

(* C11: registrar_compra checks the product before the stock: a purchase   *)
(* is answered 404 exactly when its product does not exist or is inactive, *)
(* whatever the quantity, and 400 exactly when the product exists, is      *)
(* active and the quantity exceeds its stock.  A DELETE of a product, or   *)
(* of its active category, leaves the product inactive, and an inactive    *)
(* product becomes active again only by a successful update_producto on    *)
(* it: until then every purchase of it is answered 404.                    *)
C11_ProductoAntesQueStock ==
    [][/\ \A c \in Compradores, a \in Arribas, ok \in BOOLEAN :
            (/\ resp'.op = "registrar_compra"
             /\ resp'.id = c.producto_id
             /\ CompradorCreate_valid(c)
             /\ PasoDe("registrar_compra", c.producto_id,
                       registrar_compra(DB, c, ok, a)))
            => LET p == c.producto_id
                   disponible == Existe(productos, p) /\ productos[p].is_active
               IN /\ (resp'.status = 404) <=> ~disponible
                  /\ (resp'.status = 400)
                        <=> (disponible /\ c.cantidad_unidades > productos[p].stock)
       /\ (resp'.op = "delete_producto" /\ resp'.status = 204)
            => ~productos'[resp'.id].is_active
       /\ (/\ resp'.op = "delete_categoria"
           /\ resp'.status = 204
           /\ categorias[resp'.id].is_active)
            => \A i \in DeCategoria(productos', resp'.id) : ~productos'[i].is_active
       /\ \A i \in 1 .. Len(productos) :
            (~productos[i].is_active /\ productos'[i].is_active)
            => (resp'.op = "update_producto" /\ resp'.id = i /\ resp'.status = 200)
      ]_vars

(* a purchase was answered 404 on a product with stock that the DELETE of  *)
(* its category left inactive                                              *)
C11_Witness ==
    /\ EsCompra(resp, 404)
    /\ Existe(productos, resp.id)
    /\ ~productos[resp.id].is_active
    /\ productos[resp.id].stock = MaxStock
    /\ ~categorias[productos[resp.id].categoria_id].is_active

(* C14: no partial commit on a storage error: when the commit of a         *)
(* purchase fails, registrar_compra answers with an error and the stored   *)
(* state has neither the stock decrement nor the new purchase row; no      *)
(* purchase step persists one of the two without the other.                *)
C14_SinCommitParcial ==
    [][/\ \A c \in Compradores, a \in Arribas :
            (/\ resp'.op = "registrar_compra"
             /\ resp'.id = c.producto_id
             /\ CompradorCreate_valid(c)
             /\ PasoDe("registrar_compra", c.producto_id,
                       registrar_compra(DB, c, FALSE, a)))
            => /\ resp'.status >= 400
               /\ productos' = productos
               /\ compras' = compras
               /\ categorias' = categorias
       /\ resp'.op = "registrar_compra"
            => /\ (resp'.status = 500) => UNCHANGED dbvars
               /\ (productos' # productos) <=> (compras' # compras)
      ]_vars

(* after one purchase went through, the commit of another failed on a      *)
(* product that is active and has the stock for it                         *)
C14_Witness ==
    /\ EsCompra(resp, 500)
    /\ Len(compras) = 1
    /\ productos[resp.id].is_active
    /\ productos[resp.id].stock >= 2

----------------------------------------------------------------------------
(* Properties of the catalogue *)

(* C5: delete_categoria on an active category c makes c inactive and makes *)
(* exactly the active products of c inactive; products of other            *)
(* categories, products of c already inactive, and every product's stock,  *)
(* price and category reference stay as they were.                         *)
C5_CascadaExacta ==
    [][(/\ resp'.op = "delete_categoria"
        /\ resp'.status = 204
        /\ Existe(categorias, resp'.id)
        /\ categorias[resp'.id].is_active)
        => LET c == resp'.id
           IN /\ categorias' = [categorias EXCEPT ![c].is_active = FALSE]
              /\ Len(productos') = Len(productos)
              /\ \A i \in 1 .. Len(productos) :
                    /\ productos'[i].nombre = productos[i].nombre
                    /\ productos'[i].stock = productos[i].stock
                    /\ productos'[i].precio = productos[i].precio
                    /\ productos'[i].categoria_id = productos[i].categoria_id
                    /\ productos'[i].is_active =
                          (productos[i].is_active /\ i \notin DeCategoria(productos, c))
              /\ compras' = compras]_vars

(* a category was deleted: a product of it is inactive, one of another     *)
(* category is still active                                                *)
C5_Witness ==
    /\ resp.op = "delete_categoria"
    /\ resp.status = 204
    /\ \E i, j \in 1 .. Len(productos) :
          /\ productos[i].categoria_id = resp.id
          /\ ~productos[i].is_active
          /\ productos[j].categoria_id # resp.id
          /\ productos[j].is_active

(* C6: after any operation that turns a category from active to inactive   *)
(* (DELETE /categorias/{id}, or PATCH /categorias/{id} with                *)
(* is_active=false) none of that category's products is active.            *)
C6_CascadaEnTodaBaja ==
    [][\A c \in 1 .. Len(categorias) :
          (categorias[c].is_active /\ ~categorias'[c].is_active)
          => \A i \in DeCategoria(productos', c) : ~productos'[i].is_active]_vars

(* C8: create_producto with a categoria_id of no category or of an         *)
(* inactive one fails with 400 and leaves the product rows as they were;   *)
(* with an existing active category it adds exactly one product row.       *)
C8_CrearProducto ==
    [][(resp'.op = "create_producto" /\ resp'.status # 422)
        => IF CategoriaDisponible(categorias, resp'.id)
           THEN /\ Len(productos') = Len(productos) + 1
                /\ SubSeq(productos', 1, Len(productos)) = productos
           ELSE /\ resp'.status = 400
                /\ productos' = productos]_vars

(* C9: delete_categoria (delete_producto) on an entity that is already     *)
(* inactive answers 204 and leaves categories, products and purchases      *)
(* exactly as they were, so a second delete gives the state of the first.  *)
C9_BajaIdempotente ==
    [][/\ (/\ resp'.op = "delete_categoria"
           /\ Existe(categorias, resp'.id)
           /\ ~categorias[resp'.id].is_active)
          => (resp'.status = 204 /\ UNCHANGED dbvars)
       /\ (/\ resp'.op = "delete_producto"
           /\ Existe(productos, resp'.id)
           /\ ~productos[resp'.id].is_active)
          => (resp'.status = 204 /\ UNCHANGED dbvars)]_vars

(* a delete was answered 204 on a category that is inactive and still has  *)
(* an active product: the call found it inactive and touched nothing       *)
C9_Witness ==
    /\ resp.op = "delete_categoria"
    /\ resp.status = 204
    /\ ~categorias[resp.id].is_active
    /\ \E i \in DeCategoria(productos, resp.id) : productos[i].is_active

(* C10: a category whose name equals an existing one ignoring case is      *)
(* refused (409, no row), so no two categories ever have names that are    *)
(* equal ignoring case.                                                    *)
C10_NombresUnicosSinCaja ==
    \A i, j \in 1 .. Len(categorias) :
        i # j => Lower(categorias[i].nombre) # Lower(categorias[j].nombre)

(* C12: an update_producto that reassigns a product to a different         *)
(* categoria_id succeeds only if the new category exists and is active;    *)
(* otherwise it is answered 400 and no field of the product changes, the   *)
(* other fields sent in the same PATCH included.                           *)
C12_ReasignarCategoria ==
    [][\A id \in ProdIds, patch \in PatchesCatalogo :
          (/\ resp'.op = "update_producto"
           /\ resp'.id = id
           /\ ProductoUpdate_valid(patch)
           /\ Existe(productos, id)
           /\ Valor(patch, "categoria_id")
           /\ patch.categoria_id # productos[id].categoria_id
           /\ PasoDe("update_producto", id, update_producto(DB, id, patch, TRUE)))
          => LET k == patch.categoria_id
                 activa == Existe(categorias, k) /\ categorias[k].is_active
             IN /\ (resp'.status = 200)
                      => (activa /\ productos'[id].categoria_id = k)
                /\ ~activa
                      => (resp'.status = 400 /\ UNCHANGED dbvars)]_vars

(* a PATCH of a product was answered 400 while the other category exists   *)
(* and is inactive                                                         *)
C12_Witness ==
    /\ resp.op = "update_producto"
    /\ resp.status = 400
    /\ productos[resp.id].is_active
    /\ \E k \in 1 .. Len(categorias) :
          k # productos[resp.id].categoria_id /\ ~categorias[k].is_active

(* C13: an update_categoria that renames a category to the name of another *)
(* category is answered 409 and leaves every category as it was, the other *)
(* fields of the PATCH included; after any creates and renames no two      *)
(* categories have the same name.                                          *)
C13_RenombrarSinRepetir ==
    [][/\ \A id \in CatIds, patch \in PatchesCategoria :
            (/\ resp'.op = "update_categoria"
             /\ resp'.id = id
             /\ CategoriaUpdate_valid(patch)
             /\ Existe(categorias, id)
             /\ Valor(patch, "nombre")
             /\ \E j \in 1 .. Len(categorias) :
                   j # id /\ categorias[j].nombre = patch.nombre
             /\ PasoDe("update_categoria", id, update_categoria(DB, id, patch, TRUE)))
            => (resp'.status = 409 /\ UNCHANGED dbvars)
       /\ \A i, j \in 1 .. Len(categorias') :
            i # j => categorias'[i].nombre # categorias'[j].nombre
      ]_vars

(* a rename was answered 409 with two categories in the table *)
C13_Witness ==
    /\ resp.op = "update_categoria"
    /\ resp.status = 409
    /\ Len(categorias) = 2

(* C15: in every state reached by category and product operations (create, *)
(* PATCH with is_active and categoria_id, DELETE) every active product     *)
(* belongs to a category that exists and is active.                        *)
C15_ActivoEnCategoriaActiva ==
    \A i \in 1 .. Len(productos) :
        productos[i].is_active
        => /\ Existe(categorias, productos[i].categoria_id)
           /\ categorias[productos[i].categoria_id].is_active

----------------------------------------------------------------------------
(* Properties of concurrent requests *)

RECURSIVE Restado(_)
Restado(ps) ==
    IF ps = {} THEN 0
    ELSE LET p == CHOOSE x \in ps : TRUE
         IN (IF resultado[p] = 200 THEN cantidad[p] ELSE 0) + Restado(ps \ {p})

(* C7: restar_stock is an atomic decrement: whatever the interleaving of   *)
(* concurrent requests on one product, the final stock is the initial      *)
(* stock minus the amounts of the requests answered with success.          *)
C7_RestaAtomica ==
    (\A p \in Procs : pc[p] = "fin")
    => productos[1].stock = stock0 - Restado(Procs)

====
